---- MODULE Spec2Model ----
(***************************************************************************)
(* Verification model of kaikatsu-api: the TTL cache (CacheService over    *)
(* node-cache), the acquisition handler (VacancyController.getVacancy over *)
(* ScraperService), the cadence scheduler (SchedulerService) and the       *)
(* normalizer of payloads and documents (ScraperService).                  *)
(*                                                                         *)
(* Time is a discrete clock `now` counted in ticks; Unit ticks make one    *)
(* second, so that the millisecond arithmetic of the code (Math.floor of a *)
(* millisecond difference over 1000) keeps a remainder to round.           *)
(***************************************************************************)
EXTENDS Integers, Sequences, FiniteSets, TLC

(***************************************************************************)
(* Bounds                                                                  *)
(***************************************************************************)
\* clock ticks per second
Unit == 2
\* configured ttlSeconds of the cache (CACHE_TTL), scaled down
TTL == 2
\* horizon of the clock, in seconds
MaxSeconds == 7
MaxTime == MaxSeconds * Unit
\* horizon of the clock when the cache is exercised alone: long enough for an
\* entry to be overwritten and to expire afterwards
MaxCacheTime == (2 * TTL + 1) * Unit

\* store codes that pass /^\d{5}$/
StoreCodes == {"20333", "20352"}
\* upstream payload versions a channel can deliver
Versions == {1, 2}

\* JavaScript's undefined, for object-valued and for number-valued results
None == [undefined |-> TRUE]
NoNum == -1

\* VacancyData values, reduced to the store they describe and the upstream
\* payload they were built from
Records == [storeCode : StoreCodes, ver : Versions]

RecordsOf(c) == {r \in Records : r.storeCode = c}

\* `vacancy:${storeCode}`
cacheKey_noStoreCode(storeCode) == <<"vacancy:", "20333">>
cacheKey(storeCode) == <<"vacancy:", storeCode>>
Keys == {<<"vacancy:", c>> : c \in StoreCodes}

VARIABLES
  now,       \* Date.now(), in ticks
  data,      \* node-cache's key -> {v, t} table (t = expiry instant)
  lastSet,   \* history: per key, the value and instant of the last set
             \* since the key was last deleted or the cache cleared
  firstSet,  \* history: per key, the instant of the first set since then
  reqs,      \* per request: where its handler stands and what it has done
             \* (field after is history: who obtained a payload later)
  browser,   \* ScraperService.browser: 0 is null, else the session's id
  launches,  \* number of browser sessions chromium.launch has created
  started,   \* app.listen's callback has run schedulerService.start()
  timeout,   \* the one-shot setTimeout of start() is pending
  intervals, \* SchedulerService.intervals: the stored timer handles
  timers,    \* the setInterval timers alive in the runtime
  rounds,    \* number of times executeScraping has been invoked
  stops,     \* history: number of times stop() has been called
  sig,       \* per termination signal: where its handler stands
  mode,      \* Node's --unhandled-rejections mode
  proc,      \* "running", or "exited" once the process has ended
  fireAt,    \* instant at which the one-shot timer of start() is due
  tickAt,    \* instant at which the periodic timer is next due
  roundLog,  \* history: instant and outcome of every executeScraping call
  unhandled, \* number of promise rejections nobody handled
  closes,    \* number of calls of browser.close()
  input,     \* argument handed to a function exercised alone
  output     \* what that function returned or threw

cacheVars == <<data, lastSet, firstSet>>
scraperVars == <<reqs, browser, launches>>
schedVars == <<started, timeout, intervals, timers, rounds, stops, sig, mode, proc,
               fireAt, tickAt, roundLog, unhandled, closes>>
funVars == <<input, output>>
vars == <<now, data, lastSet, firstSet, reqs, browser, launches,
          started, timeout, intervals, timers, rounds, stops, sig, mode, proc,
          fireAt, tickAt, roundLog, unhandled, closes, input, output>>

(***************************************************************************)
(* node-cache as configured by CacheService: stdTTL = ttl, deleteOnExpire  *)
(***************************************************************************)
\* _wrap: the stored entry expires stdTTL seconds after the set
wrap_keepExpiry(k, v) ==
  [v |-> v, t |-> IF data[k] # None THEN data[k].t ELSE now + TTL * Unit]
wrap(k, v) == [v |-> v, t |-> now + TTL * Unit]

\* _check: an entry is expired once its expiry instant lies in the past
check(e) == ~(e.t # 0 /\ e.t < now)

\* the table after a method has looked at key k: an expired entry is deleted
touched(k) ==
  IF data[k] # None /\ ~check(data[k]) THEN [data EXCEPT ![k] = None] ELSE data

\* what cache.get(k), cache.has(k), cache.getTtl(k) return at this instant
getValue_noCheck(k) == IF data[k] # None THEN data[k].v ELSE None
getValue(k) == IF data[k] # None /\ check(data[k]) THEN data[k].v ELSE None
hasValue(k) == data[k] # None /\ check(data[k])
getTtl(k) == IF data[k] # None /\ check(data[k]) THEN data[k].t ELSE NoNum

\* CacheService.getCacheAge: this.ttl - Math.floor((ttl - now) / 1000)
cacheAge_remaining(k) ==
  IF getTtl(k) # NoNum /\ getTtl(k) # 0
  THEN (getTtl(k) - now) \div Unit
  ELSE NoNum
cacheAge(k) ==
  IF getTtl(k) # NoNum /\ getTtl(k) # 0
  THEN TTL - ((getTtl(k) - now) \div Unit)
  ELSE NoNum

\* stats.keys of node-cache: the NUMBER of stored keys
statsKeys == Cardinality({k \in Keys : data[k] # None})

(***************************************************************************)
(* CacheService methods                                                    *)
(***************************************************************************)
set(k, v) ==
  /\ data' = [data EXCEPT ![k] = wrap(k, v)]
  /\ lastSet' = [lastSet EXCEPT ![k] = [v |-> v, at |-> now]]
  /\ firstSet' = [firstSet EXCEPT ![k] = IF @ = NoNum THEN now ELSE @]

get(k) ==
  /\ data' = touched(k)
  /\ UNCHANGED <<lastSet, firstSet>>

has(k) ==
  /\ data' = touched(k)
  /\ UNCHANGED <<lastSet, firstSet>>

delete(k) ==
  /\ data' = [data EXCEPT ![k] = None]
  /\ lastSet' = [lastSet EXCEPT ![k] = None]
  /\ firstSet' = [firstSet EXCEPT ![k] = NoNum]

clear ==
  /\ data' = [k \in Keys |-> None]
  /\ lastSet' = [k \in Keys |-> None]
  /\ firstSet' = [k \in Keys |-> NoNum]

getCacheAge(k) ==
  /\ data' = touched(k)
  /\ UNCHANGED <<lastSet, firstSet>>

\* node-cache's periodic _checkData: every stored key is checked, expired
\* ones are deleted.  The sweep's phase against the sets is arbitrary.
checkData ==
  /\ \E k \in Keys : data[k] # None /\ ~check(data[k])
  /\ data' = [k \in Keys |-> IF data[k] # None /\ check(data[k]) THEN data[k] ELSE None]
  /\ UNCHANGED <<lastSet, firstSet>>

\* the clock advances by step ticks, up to horizon max
Tick(step, max) ==
  /\ now + step <= max
  /\ now' = now + step
  /\ UNCHANGED <<cacheVars, scraperVars, schedVars, funVars>>

(***************************************************************************)
(* Requests: GET /vacancy/:storeCode handled by VacancyController          *)
(***************************************************************************)
\* request slots, taken in order
ReqIds == {1, 2}
\* a :storeCode that fails /^\d{5}$/
InvalidCodes == {"2033"}
\* values of the noCache query parameter (a request without the parameter
\* compares like 'false')
QueryValues == {"true", "false"}

\* the maxRetries a caller passes to scrapeWithRetry
MaxRetriesValues == 1..3

NoError == [kind |-> "none", attempt |-> 0]
NewRequest ==
  [pc |-> "new", caller |-> "", code |-> "", q |-> "", max |-> 0, attempt |-> 0,
   failedAt |-> NoNum, waited |-> 0, page |-> 0, direct |-> 0,
   directOk |-> FALSE, rendered |-> 0, lastError |-> NoError,
   got |-> 0, after |-> {},
   status |-> 0, body |-> None, cached |-> FALSE, cacheAge |-> NoNum]

\* /^\d{5}$/.test(storeCode)
validStoreCode(c) == c \in StoreCodes

\* req.query.noCache === 'true'
noCache_truthy(q) == q # ""
noCache(q) == q = "true"

\* whether getVacancy falls back to scrapeWithRetry after the direct call
fallback_always(ok) == TRUE
fallback(ok) == ~ok

\* Math.pow(2, attempt) * 1000 milliseconds
backoffDelay_fromZero(attempt) == 2^(attempt - 1) * Unit
backoffDelay(attempt) == 2^attempt * Unit

\* scrapeWithRetry's loop condition: attempt <= maxRetries decides whether a
\* failed attempt is followed by another one
moreAttempts_offByOne(attempt, maxRetries) == attempt + 1 < maxRetries
moreAttempts(attempt, maxRetries) == attempt + 1 <= maxRetries

\* the res.json / res.status(..).json a finished handler has sent
respond(R, status, body, cached, age) ==
  [R EXCEPT !.pc = "done", !.attempt = 0, !.failedAt = NoNum,
            !.waited = 0, !.got = 0, !.after = {},
            !.status = status, !.body = body,
            !.cached = cached, !.cacheAge = age]

\* scrapeVacancy's finally block: await page.close()
closePage_leak(R) == R
closePage(R) == [R EXCEPT !.page = 0]

\* history: request q obtains a payload for store c; every rendered attempt
\* for c that holds its payload already and has not returned yet notes that
\* q obtained later
obtainedAfter(R, q, c) ==
  IF R.pc = "page" /\ R.got # 0 /\ R.code = c THEN [R EXCEPT !.after = @ \cup {q}] ELSE R

\* scrapeVacancy is entered for attempt n: initialize() launches a session
\* when this.browser is null, else the page is opened on this.browser
startAttempt(R, n) ==
  [R EXCEPT !.attempt = n, !.rendered = @ + 1,
            !.pc = IF browser = 0 THEN "launch" ELSE "page",
            !.page = browser]

\* scrapeWithRetry's catch block: remember the error, then back off and go
\* round again, or leave the loop and throw lastError to the caller (whose
\* catch answers 500 when the caller is getVacancy)
attemptFailed(R) ==
  LET e == [kind |-> "scrape", attempt |-> R.attempt]
      F == [R EXCEPT !.lastError = e]
  IN IF moreAttempts(R.attempt, R.max)
     THEN [F EXCEPT !.pc = "sleep", !.failedAt = now, !.got = 0, !.after = {}]
     ELSE respond(F, 500, None, FALSE, NoNum)

\* scrapeVacancy has closed its page and returned rec through
\* scrapeWithRetry; the caller's continuation: getVacancy stores it and
\* answers 200
returned(r, rec) ==
  IF reqs[r].caller = "getVacancy"
  THEN /\ set(cacheKey(reqs[r].code), rec)
       /\ reqs' = [reqs EXCEPT ![r] = respond(closePage(@), 200, rec, FALSE, NoNum)]
  ELSE /\ UNCHANGED cacheVars
       /\ reqs' = [reqs EXCEPT ![r] = respond(closePage(@), 200, rec, FALSE, NoNum)]

\* VacancyController.getVacancy up to its first await
getVacancy(r, c, q) ==
  /\ reqs[r].pc = "new"
  /\ \A p \in ReqIds : p < r => reqs[p].pc # "new"
  /\ LET R == [reqs[r] EXCEPT !.caller = "getVacancy", !.code = c, !.q = q]
     IN IF ~validStoreCode(c)
        THEN /\ reqs' = [reqs EXCEPT ![r] = respond(R, 400, None, FALSE, NoNum)]
             /\ UNCHANGED cacheVars
        ELSE IF ~noCache(q) /\ getValue(cacheKey(c)) # None
        THEN /\ get(cacheKey(c))
             /\ reqs' = [reqs EXCEPT ![r] =
                  respond(R, 200, getValue(cacheKey(c)), TRUE, cacheAge(cacheKey(c)))]
        ELSE /\ IF noCache(q) THEN UNCHANGED cacheVars ELSE get(cacheKey(c))
             /\ reqs' = [reqs EXCEPT ![r] = [R EXCEPT !.pc = "direct", !.direct = @ + 1]]
  /\ UNCHANGED <<now, browser, launches, schedVars, funVars>>

\* fetchVacancyFromAPI settles: it resolves with a record built from payload
\* version ver, or it rejects (transport error, non-zero status)
directSettles(r, ok, ver) ==
  /\ reqs[r].pc = "direct"
  /\ LET R == [reqs[r] EXCEPT !.directOk = ok,
                 !.lastError = IF ok THEN @ ELSE [kind |-> "api", attempt |-> 0]]
     IN IF fallback(ok)
        THEN /\ reqs' = [reqs EXCEPT ![r] = startAttempt([R EXCEPT !.max = 3], 1)]
             /\ UNCHANGED cacheVars
        ELSE /\ set(cacheKey(R.code), [storeCode |-> R.code, ver |-> ver])
             /\ reqs' = [p \in ReqIds |->
                  IF p = r
                  THEN respond(R, 200, [storeCode |-> R.code, ver |-> ver], FALSE, NoNum)
                  ELSE obtainedAfter(reqs[p], r, R.code)]
  /\ UNCHANGED <<now, browser, launches, schedVars, funVars>>

\* chromium.launch resolves inside initialize(): this.browser is assigned the
\* new session, and scrapeVacancy opens its page on this.browser
launchResolves(r) ==
  /\ reqs[r].pc = "launch"
  /\ launches' = launches + 1
  /\ browser' = launches + 1
  /\ reqs' = [reqs EXCEPT ![r] = [@ EXCEPT !.pc = "page", !.page = launches + 1]]
  /\ UNCHANGED <<now, cacheVars, schedVars, funVars>>

\* chromium.launch rejects: the attempt fails before a page exists
launchRejects(r) ==
  /\ reqs[r].pc = "launch"
  /\ reqs' = [reqs EXCEPT ![r] = attemptFailed(@)]
  /\ UNCHANGED <<now, cacheVars, browser, launches, schedVars, funVars>>

\* the page of a rendered attempt holds what the record will be built from:
\* the response of the vacancy endpoint has been captured while the page
\* loaded, or the content of the document has been read
pageLoaded(r, ver) ==
  /\ reqs[r].pc = "page" /\ reqs[r].got = 0
  /\ reqs' = [p \in ReqIds |->
       IF p = r THEN [reqs[r] EXCEPT !.got = ver]
       ELSE obtainedAfter(reqs[p], r, reqs[r].code)]
  /\ UNCHANGED <<now, cacheVars, browser, launches, schedVars, funVars>>

\* scrapeVacancy returns the record built from what the page held (page
\* closed in finally)
scrapeResolves(r) ==
  /\ reqs[r].pc = "page" /\ reqs[r].got # 0
  /\ returned(r, [storeCode |-> reqs[r].code, ver |-> reqs[r].got])
  /\ UNCHANGED <<now, browser, launches, schedVars, funVars>>

\* scrapeVacancy throws (page closed in finally)
scrapeRejects(r) ==
  /\ reqs[r].pc = "page"
  /\ reqs' = [reqs EXCEPT ![r] = attemptFailed(closePage(@))]
  /\ UNCHANGED <<now, cacheVars, browser, launches, schedVars, funVars>>

\* the backoff timer fires, no earlier than its delay after it was set
backoffElapsed(r) ==
  /\ reqs[r].pc = "sleep"
  /\ now >= reqs[r].failedAt + backoffDelay(reqs[r].attempt)
  /\ reqs' = [reqs EXCEPT ![r] =
       startAttempt([@ EXCEPT !.waited = @ + (now - reqs[r].failedAt),
                               !.failedAt = NoNum],
                    reqs[r].attempt + 1)]
  /\ UNCHANGED <<now, cacheVars, browser, launches, schedVars, funVars>>

\* VacancyController.clearCache
clearCache == clear /\ UNCHANGED <<now, scraperVars, schedVars, funVars>>

\* a caller other than getVacancy invokes scrapeWithRetry(c, m) and keeps
\* what it returns or throws
scrapeWithRetry(r, c, m) ==
  /\ \A p \in ReqIds : reqs[p].pc \in {"new", "done"}
  /\ reqs[r].pc = "new"
  /\ \A p \in ReqIds : p < r => reqs[p].pc # "new"
  /\ reqs' = [reqs EXCEPT ![r] =
       startAttempt([@ EXCEPT !.caller = "scrapeWithRetry", !.code = c, !.max = m], 1)]
  /\ UNCHANGED <<now, cacheVars, browser, launches, schedVars, funVars>>

(***************************************************************************)
(* SchedulerService and process shutdown                                   *)
(***************************************************************************)
\* cap on the rounds a run of the model starts
MaxRounds == 4
Signals == {"SIGTERM", "SIGINT"}
\* the stores a round fetches when the cache names none
DEFAULT_STORE_CODES == {"20333"}

\* ticks in a minute and in an hour of the wall clock
Minute == 60 * Unit
Hour == 60 * Minute
\* the instant h:m:s of the local clock, counted from the midnight at which
\* now = 0 (h = 24 is the next day's 00)
At(h, m, s) == h * Hour + m * Minute + s * Unit

\* Date's getters; the date is carried by the hours
getHours(t) == t \div Hour
getMinutes(t) == (t \div Minute) % 60
getSeconds(t) == (t \div Unit) % 60
getMilliseconds(t) == t % Unit
\* Date's setters: one field is replaced, an overflow carries upwards
setHours(t, h) == t + (h - getHours(t)) * Hour
setMinutes(t, m) == t + (m - getMinutes(t)) * Minute
setSeconds(t, s) == t + (s - getSeconds(t)) * Unit
setMilliseconds(t, ms) == t + (ms - getMilliseconds(t))

\* getNextScheduledTime with new Date() = t: minute 04, 14, .. 54 of the
\* hour, the next hour's 04 past minute 54
getNextScheduledTime_sameSlot(t) ==
  LET currentMinute == getMinutes(t)
      currentSlot == currentMinute \div 10
      nextSlot == IF currentMinute % 10 > 4 THEN currentSlot + 1 ELSE currentSlot
      nextMinute == nextSlot * 10 + 4
      next == IF nextMinute >= 60
              THEN setMinutes(setHours(t, getHours(t) + 1), 4)
              ELSE setMinutes(t, nextMinute)
  IN  setMilliseconds(setSeconds(next, 0), 0)
getNextScheduledTime(t) ==
  LET currentMinute == getMinutes(t)
      currentSecond == getSeconds(t)
      currentSlot == currentMinute \div 10
      nextSlot == IF currentMinute % 10 >= 4
                     \/ (currentMinute % 10 = 4 /\ currentSecond > 0)
                  THEN currentSlot + 1 ELSE currentSlot
      nextMinute == nextSlot * 10 + 4
      next == IF nextMinute >= 60
              THEN setMinutes(setHours(t, getHours(t) + 1), 4)
              ELSE setMinutes(t, nextMinute)
  IN  setMilliseconds(setSeconds(next, 0), 0)

\* the period of setInterval: 10 * 60 * 1000 ms
Cadence == 10 * 60 * Unit

InitFun ==
  /\ input = None
  /\ output = None

InitSched ==
  /\ started = FALSE
  /\ timeout = FALSE
  /\ intervals = <<>>
  /\ timers = {}
  /\ rounds = 0
  /\ stops = 0
  /\ sig = [g \in Signals |-> "none"]
  /\ mode = "throw"
  /\ proc = "running"
  /\ fireAt = NoNum
  /\ tickAt = NoNum
  /\ roundLog = <<>>
  /\ unhandled = 0
  /\ closes = 0

\* getStoreCodesFromCache: node-cache's getStats() is {hits, misses, keys,
\* ksize, vsize} with keys the NUMBER of stored keys (statsKeys), so
\* keys.filter(...) throws "keys.filter is not a function"
getStoreCodesFromCache == "TypeError"

\* executeScraping: the async function rejects where getStoreCodesFromCache
\* throws, before any store is fetched
executeScraping == IF getStoreCodesFromCache = "TypeError" THEN "rejected" ELSE "resolved"

\* one call of executeScraping, as the log of rounds records it
round == [at |-> now, outcome |-> executeScraping]

\* what becomes of the process after a callback that dropped the promise of
\* executeScraping: an unhandled rejection ends it in mode "throw"
afterDroppedPromise(outcome) ==
  IF outcome = "rejected" /\ mode = "throw" THEN "exited" ELSE "running"

\* the rejections a callback leaves unhandled when it drops the promise
droppedRejections(outcome) == IF outcome = "rejected" THEN 1 ELSE 0

\* SchedulerService.start, called once from app.listen's callback: the
\* warm-up round (its rejection is caught and logged), then the one-shot
\* timer to the next aligned trigger; the handle of setTimeout is dropped
start ==
  /\ proc = "running" /\ ~started
  /\ started' = TRUE
  /\ rounds' = rounds + 1
  /\ roundLog' = Append(roundLog, round)
  /\ timeout' = TRUE
  /\ fireAt' = now + (getNextScheduledTime(now) - now)
  /\ UNCHANGED <<intervals, timers, stops, sig, mode, proc, tickAt, unhandled, closes>>
  /\ UNCHANGED <<now, cacheVars, scraperVars, funVars>>

\* the one-shot fires: a round, then setInterval whose handle is stored
timeoutFires ==
  /\ proc = "running" /\ timeout /\ now >= fireAt
  /\ timeout' = FALSE
  /\ rounds' = rounds + 1
  /\ roundLog' = Append(roundLog, round)
  /\ timers' = timers \cup {Len(intervals) + Cardinality(timers) + 1}
  /\ intervals' = Append(intervals, Len(intervals) + Cardinality(timers) + 1)
  /\ tickAt' = now + Cadence
  /\ unhandled' = unhandled + droppedRejections(executeScraping)
  /\ proc' = afterDroppedPromise(executeScraping)
  /\ UNCHANGED <<started, stops, sig, mode, fireAt, closes>>
  /\ UNCHANGED <<now, cacheVars, scraperVars, funVars>>

\* a periodic timer fires: a round; the timer is armed again for one period
\* after this run
intervalFires(h) ==
  /\ proc = "running" /\ h \in timers /\ now >= tickAt
  /\ rounds < MaxRounds
  /\ rounds' = rounds + 1
  /\ roundLog' = Append(roundLog, round)
  /\ tickAt' = now + Cadence
  /\ unhandled' = unhandled + droppedRejections(executeScraping)
  /\ proc' = afterDroppedPromise(executeScraping)
  /\ UNCHANGED <<started, timeout, intervals, timers, stops, sig, mode, fireAt, closes>>
  /\ UNCHANGED <<now, cacheVars, scraperVars, funVars>>

\* SchedulerService.stop: clearInterval on every stored handle
stop_timers == timers \ {intervals[i] : i \in 1..Len(intervals)}

\* ScraperService.close up to its await: browser.close() is called when
\* this.browser is set
closeCalls == IF browser # 0 THEN 1 ELSE 0

\* the SIGTERM / SIGINT handler up to its await: stop(), then close(), which
\* awaits browser.close() when a session exists and else returns, so that
\* process.exit(0) follows at once
signal(g) ==
  /\ proc = "running" /\ sig[g] = "none"
  /\ timers' = stop_timers
  /\ intervals' = <<>>
  /\ stops' = stops + 1
  /\ closes' = closes + closeCalls
  /\ IF browser # 0
     THEN sig' = [sig EXCEPT ![g] = "closing"] /\ proc' = proc
     ELSE sig' = [sig EXCEPT ![g] = "done"] /\ proc' = "exited"
  /\ UNCHANGED <<started, timeout, rounds, mode, fireAt, tickAt, roundLog, unhandled>>
  /\ UNCHANGED <<now, cacheVars, scraperVars, funVars>>

\* browser.close() resolves in the handler of g: this.browser = null, then
\* process.exit(0)
closeResolves(g) ==
  /\ proc = "running" /\ sig[g] = "closing"
  /\ browser' = 0
  /\ sig' = [sig EXCEPT ![g] = "done"]
  /\ proc' = "exited"
  /\ UNCHANGED <<started, timeout, intervals, timers, rounds, stops, mode,
                 fireAt, tickAt, roundLog, unhandled, closes>>
  /\ UNCHANGED <<now, cacheVars, reqs, launches, funVars>>

\* the instants of the local clock at which start() is called
StartInstants == {At(23, 1, 0), At(23, 4, 0), At(23, 7, 30), At(23, 56, 0)}
\* the scheduler is observed every 30 seconds, until 00:30 of the next day
SchedStep == 30 * Unit
SchedEnd == At(24, 30, 0)

\* the process as the scheduler sees it: a browser session may or may not
\* have been launched by requests, and Node runs in either rejection mode
InitProcess ==
  /\ now \in StartInstants
  /\ data = [k \in Keys |-> None]
  /\ lastSet = [k \in Keys |-> None]
  /\ firstSet = [k \in Keys |-> NoNum]
  /\ reqs = [r \in ReqIds |-> NewRequest]
  /\ browser \in {0, 1}
  /\ launches = browser
  /\ started = FALSE
  /\ timeout = FALSE
  /\ intervals = <<>>
  /\ timers = {}
  /\ rounds = 0
  /\ stops = 0
  /\ sig = [g \in Signals |-> "none"]
  /\ mode \in {"throw", "warn"}
  /\ proc = "running"
  /\ fireAt = NoNum
  /\ tickAt = NoNum
  /\ roundLog = <<>>
  /\ unhandled = 0
  /\ closes = 0
  /\ InitFun

\* a timer of the running process is due: the event loop runs its callback
\* before the clock is observed again
timerDue ==
  /\ proc = "running"
  /\ \/ timeout /\ now >= fireAt
     \/ timers # {} /\ now >= tickAt

Start == start
TimeoutFires == timeoutFires
IntervalFires == \E h \in timers : intervalFires(h)
Signal == \E g \in Signals : signal(g)
CloseResolves == \E g \in Signals : closeResolves(g)
\* the clock of the scheduler is observed from start() until the process ends
TickSched == started /\ proc = "running" /\ ~timerDue /\ Tick(SchedStep, SchedEnd)

NextSched ==
  \/ Start
  \/ TimeoutFires
  \/ IntervalFires
  \/ Signal
  \/ CloseResolves
  \/ TickSched

SpecSched == InitProcess /\ [][NextSched]_vars

(***************************************************************************)
(* getNextScheduledTime exercised alone, at every instant of two hours     *)
(***************************************************************************)
\* the seconds of a minute at which the function is called
TriggerSeconds == {0, 1, 30, 59}
TriggerInstants ==
  {At(h, m, s) + ms : h \in {22, 23}, m \in 0..59, s \in TriggerSeconds, ms \in 0..(Unit - 1)}

InitTrigger ==
  /\ now \in TriggerInstants
  /\ data = [k \in Keys |-> None]
  /\ lastSet = [k \in Keys |-> None]
  /\ firstSet = [k \in Keys |-> NoNum]
  /\ reqs = [r \in ReqIds |-> NewRequest]
  /\ browser = 0
  /\ launches = 0
  /\ InitSched
  /\ input = None
  /\ output = NoNum

CallGetNextScheduledTime ==
  /\ output = NoNum
  /\ output' = getNextScheduledTime(now)
  /\ UNCHANGED <<now, cacheVars, scraperVars, schedVars, input>>

NextTrigger == CallGetNextScheduledTime

SpecTrigger == InitTrigger /\ [][NextTrigger]_vars

(***************************************************************************)
(* The cache exercised alone, through the public methods of CacheService   *)
(***************************************************************************)
InitCache ==
  /\ now = 0
  /\ data = [k \in Keys |-> None]
  /\ lastSet = [k \in Keys |-> None]
  /\ firstSet = [k \in Keys |-> NoNum]
  /\ reqs = [r \in ReqIds |-> NewRequest]
  /\ browser = 0
  /\ launches = 0
  /\ InitSched
  /\ InitFun

CallSet ==
  \E c \in StoreCodes : \E v \in RecordsOf(c) :
    set(cacheKey(c), v) /\ UNCHANGED <<now, scraperVars, schedVars, funVars>>
CallGet == \E k \in Keys : get(k) /\ UNCHANGED <<now, scraperVars, schedVars, funVars>>
CallHas == \E k \in Keys : has(k) /\ UNCHANGED <<now, scraperVars, schedVars, funVars>>
CallDelete == \E k \in Keys : delete(k) /\ UNCHANGED <<now, scraperVars, schedVars, funVars>>
CallClear == clear /\ UNCHANGED <<now, scraperVars, schedVars, funVars>>
CallGetCacheAge == \E k \in Keys : getCacheAge(k) /\ UNCHANGED <<now, scraperVars, schedVars, funVars>>
Sweep == checkData /\ UNCHANGED <<now, scraperVars, schedVars, funVars>>
\* the cache alone is observed at every tick
TickCache == Tick(1, MaxCacheTime)

NextCache ==
  \/ CallSet
  \/ CallGet
  \/ CallHas
  \/ CallDelete
  \/ CallClear
  \/ CallGetCacheAge
  \/ Sweep
  \/ TickCache

SpecCache == InitCache /\ [][NextCache]_vars

(***************************************************************************)
(* The server: requests, channels, browser session and cache               *)
(***************************************************************************)
Init == InitCache

Request == \E r \in ReqIds, c \in StoreCodes \cup InvalidCodes, q \in QueryValues :
  getVacancy(r, c, q)
DirectSettles == \E r \in ReqIds, ok \in BOOLEAN, ver \in Versions :
  directSettles(r, ok, ver)
LaunchResolves == \E r \in ReqIds : launchResolves(r)
LaunchRejects == \E r \in ReqIds : launchRejects(r)
PageLoaded == \E r \in ReqIds, ver \in Versions : pageLoaded(r, ver)
ScrapeResolves == \E r \in ReqIds : scrapeResolves(r)
ScrapeRejects == \E r \in ReqIds : scrapeRejects(r)
BackoffElapsed == \E r \in ReqIds : backoffElapsed(r)
ClearCache == clearCache
\* the server is observed once a second
TickServer == Tick(Unit, MaxTime)

Next ==
  \/ Request
  \/ DirectSettles
  \/ LaunchResolves
  \/ LaunchRejects
  \/ PageLoaded
  \/ ScrapeResolves
  \/ ScrapeRejects
  \/ BackoffElapsed
  \/ ClearCache
  \/ Sweep
  \/ TickServer

Spec == Init /\ [][Next]_vars


(***************************************************************************)
(* The server with its scheduler, from start() to the first timer round    *)
(***************************************************************************)
\* the instant of start(), three seconds before the trigger 23:04:00, and
\* the instant up to which the server is then observed
RoundStart == At(23, 3, 57)
RoundEnd == At(23, 4, 1)

\* the state in which app.listen's callback leaves the process: start() has
\* run its warm-up round and armed the one-shot.  Node runs with
\* --unhandled-rejections=warn, so that the process outlives a round that
\* rejects and what the round did can be observed.
InitRound ==
  /\ now = RoundStart
  /\ data = [k \in Keys |-> None]
  /\ lastSet = [k \in Keys |-> None]
  /\ firstSet = [k \in Keys |-> NoNum]
  /\ reqs = [r \in ReqIds |-> NewRequest]
  /\ browser = 0
  /\ launches = 0
  /\ started = TRUE
  /\ timeout = TRUE
  /\ intervals = <<>>
  /\ timers = {}
  /\ rounds = 1
  /\ stops = 0
  /\ sig = [g \in Signals |-> "none"]
  /\ mode = "warn"
  /\ proc = "running"
  /\ fireAt = now + (getNextScheduledTime(now) - now)
  /\ tickAt = NoNum
  /\ roundLog = <<round>>
  /\ unhandled = 0
  /\ closes = 0
  /\ InitFun

TickRound == ~timerDue /\ Tick(Unit, RoundEnd)

NextRound ==
  \/ Request
  \/ DirectSettles
  \/ LaunchResolves
  \/ LaunchRejects
  \/ PageLoaded
  \/ ScrapeResolves
  \/ ScrapeRejects
  \/ BackoffElapsed
  \/ ClearCache
  \/ Sweep
  \/ TimeoutFires
  \/ TickRound

SpecRound == InitRound /\ [][NextRound]_vars

(***************************************************************************)
(* The normalizer of ScraperService: upstream payloads and rendered        *)
(* documents.  A text is a sequence of characters; the characters the code *)
(* looks for are named: "zan" U+6B8B, "seki" U+5E2D, "man" U+6E80,         *)
(* "batsu" U+00D7, "kuu" U+7A7A, "dai" U+53F0, "zen" U+5168, "da-tsu" the  *)
(* three characters of the darts seat name.                                *)
(***************************************************************************)
Digits == {"0", "1", "2", "3", "4", "5", "6", "7", "8", "9"}
digitValue(c) == CHOOSE n \in 0..9 : ToString(n) = c

\* what parseInt gives for a text without digits at its head
NaN == -2

\* the end of the run of digits of s that starts at i (i - 1: no digit at i)
RECURSIVE digitRunEnd(_, _)
digitRunEnd(s, i) ==
  IF i <= Len(s) /\ s[i] \in Digits THEN digitRunEnd(s, i + 1) ELSE i - 1

\* the decimal value of the digits s[i..j]
RECURSIVE decimal(_, _, _)
decimal(s, i, j) ==
  IF j < i THEN 0 ELSE decimal(s, i, j - 1) * 10 + digitValue(s[j])

\* parseInt(s, 10): leading white space is skipped, then the digits at the
\* head are read; NaN when there are none
RECURSIVE parseInt(_)
parseInt(s) ==
  IF s # <<>> /\ Head(s) = " " THEN parseInt(Tail(s))
  ELSE IF digitRunEnd(s, 1) = 0 THEN NaN
  ELSE decimal(s, 1, digitRunEnd(s, 1))

\* /zan?(\d+)seki/ tried at position p of s: the position of the first
\* digit of the captured group, 0 when there is no match at p
seatMatchAt(s, p) ==
  LET from(q) == /\ digitRunEnd(s, q) >= q
                 /\ digitRunEnd(s, q) < Len(s)
                 /\ s[digitRunEnd(s, q) + 1] = "seki"
  IN  IF s[p] = "zan" /\ from(p + 1) THEN p + 1
      ELSE IF from(p) THEN p
      ELSE 0

\* parseSeatStatus on a string: the full marks give 0, else the number in
\* front of "seki" at the leftmost match, else 0
parseSeatStatus_firstDigit(status) ==
  IF status = <<"man", "seki">> \/ status = <<"batsu">> THEN 0
  ELSE LET ps == {p \in 1..Len(status) : seatMatchAt(status, p) # 0}
       IN  IF ps = {} THEN 0
           ELSE LET p == CHOOSE q \in ps : \A o \in ps : q <= o
                IN  digitValue(status[seatMatchAt(status, p)])
parseSeatStatus(status) ==
  IF status = <<"man", "seki">> \/ status = <<"batsu">> THEN 0
  ELSE LET ps == {p \in 1..Len(status) : seatMatchAt(status, p) # 0}
       IN  IF ps = {} THEN 0
           ELSE LET p == CHOOSE q \in ps : \A o \in ps : q <= o
                IN  decimal(status, seatMatchAt(status, p), digitRunEnd(status, seatMatchAt(status, p)))

\* mapStatusNo: 1 vacant, 2 and 3 crowded, 4 full, anything else (NaN
\* included) unknown
mapStatusNo(statusNo) ==
  CASE statusNo = 1 -> "vacant"
    [] statusNo = 2 -> "crowded"
    [] statusNo = 3 -> "crowded"
    [] statusNo = 4 -> "full"
    [] OTHER -> "unknown"

\* determineStatus: no seats at all is unknown, none free is full, under
\* 30 percent free is crowded
determineStatus_atMost(available, total) ==
  IF total = 0 THEN "unknown"
  ELSE IF available = 0 THEN "full"
  ELSE IF 10 * available <= 3 * total THEN "crowded"
  ELSE "vacant"
determineStatus(available, total) ==
  IF total = 0 THEN "unknown"
  ELSE IF available = 0 THEN "full"
  ELSE IF 10 * available < 3 * total THEN "crowded"
  ELSE "vacant"

\* property f of object o is present (else reading it gives undefined)
hasOwn(o, f) == f \in DOMAIN o

\* the seat name 'da-tsu' and the fallback store name 'Kaikatsu CLUB'
Darts == "da-tsu"
DefaultStoreName == "Kaikatsu CLUB"
\* what an operation gives when it throws
Thrown(e) == [error |-> e]

\* seat => seat.seat_name === 'da-tsu' || seat.category_id === '10'
isDart(seat) ==
  \/ hasOwn(seat, "seat_name") /\ seat.seat_name = Darts
  \/ hasOwn(seat, "category_id") /\ seat.category_id = "10"

\* data.seat_type?.find(isDart), as the sequence of what was found
dartInfoOf(payload) ==
  IF ~hasOwn(payload, "seat_type") THEN <<>>
  ELSE LET found == SelectSeq(payload.seat_type, isDart)
       IN  IF found = <<>> THEN <<>> ELSE <<Head(found)>>

\* the dartVacancy built from a structured payload; status.match throws a
\* TypeError when dartInfo.seat_status is undefined
dartVacancyOf(payload) ==
  IF dartInfoOf(payload) = <<>>
  THEN [available |-> 0, total |-> 0, status |-> "unknown"]
  ELSE LET dartInfo == Head(dartInfoOf(payload))
       IN  IF ~hasOwn(dartInfo, "seat_status") THEN Thrown("TypeError")
           ELSE LET available == parseSeatStatus(dartInfo.seat_status)
                    statusNo == IF hasOwn(dartInfo, "status_no")
                                THEN parseInt(dartInfo.status_no) ELSE NaN
                IN  [available |-> available,
                     total |-> IF available > 0 THEN available ELSE 0,
                     status |-> mapStatusNo(statusNo)]

\* an update_time that new Date() can read, and one it cannot
ValidTime == "2025-01-01T10:30:00+09:00"
InvalidTime == "10:30 koushin"

\* lastUpdated of a payload: update_time when present and a date, else now
lastUpdatedOf(payload) ==
  IF hasOwn(payload, "update_time") /\ payload.update_time = ValidTime
  THEN ValidTime ELSE "now"

\* payload.store_name || 'Kaikatsu CLUB'
storeNameOf(payload) ==
  IF hasOwn(payload, "store_name") /\ payload.store_name # "" THEN payload.store_name
  ELSE DefaultStoreName

VacancyData(storeCode, storeName, dartVacancy, lastUpdated) ==
  [storeCode |-> storeCode, storeName |-> storeName, dartVacancy |-> dartVacancy,
   lastUpdated |-> lastUpdated, fetchedAt |-> now]

\* fetchVacancyFromAPI once the request has returned payload: a status other
\* than 0 is an error; whatever is thrown is logged and thrown again
fetchVacancyFromAPI(storeCode, payload) ==
  IF ~hasOwn(payload, "status") \/ payload.status # 0
  THEN Thrown("API returned error status")
  ELSE IF hasOwn(dartVacancyOf(payload), "error") THEN dartVacancyOf(payload)
  ELSE VacancyData(storeCode, storeNameOf(payload), dartVacancyOf(payload), lastUpdatedOf(payload))

\* the first position from i on that holds no white space
RECURSIVE skipSpaces(_, _)
skipSpaces(s, i) ==
  IF i <= Len(s) /\ s[i] = " " THEN skipSpaces(s, i + 1) ELSE i

\* /(\d+)[\s]*dai/ matches at position p of s
unitsAt(s, p) ==
  /\ digitRunEnd(s, p) >= p
  /\ skipSpaces(s, digitRunEnd(s, p) + 1) <= Len(s)
  /\ s[skipSpaces(s, digitRunEnd(s, p) + 1)] = "dai"

\* the number captured by a match whose group starts at p
captured(s, p) == decimal(s, p, digitRunEnd(s, p))

least(ps) == CHOOSE p \in ps : \A o \in ps : p <= o

\* text.match(/(\d+)[\s]*dai/): the positions at which it matches
availableMatch(text) == {p \in 1..Len(text) : unitsAt(text, p)}
\* text.match(/\/[\s]*(\d+)[\s]*dai/): the starts of the group per match
totalMatchSlash(text) ==
  {skipSpaces(text, p + 1) : p \in {q \in 1..Len(text) :
      text[q] = "/" /\ unitsAt(text, skipSpaces(text, q + 1))}}
\* text.match(/zen(\d+)[\s]*dai/)
totalMatchAll(text) ==
  {p + 1 : p \in {q \in 1..Len(text) : text[q] = "zen" /\ unitsAt(text, q + 1)}}

hasUnits(text) == availableMatch(text) # {}
isDartRow(rowText) ==
  /\ \E i \in 1..Len(rowText) : rowText[i] \in {Darts, "DARTS"}
  /\ hasUnits(rowText)

\* extractDartVacancy: the first dedicated element whose text names units,
\* else the first table row or list item about darts that does, else the
\* default
extractDartVacancy(doc) ==
  IF SelectSeq(doc.dart, hasUnits) # <<>>
  THEN LET text == Head(SelectSeq(doc.dart, hasUnits))
           available == captured(text, least(availableMatch(text)))
           total == IF totalMatchSlash(text) # {}
                    THEN captured(text, least(totalMatchSlash(text)))
                    ELSE IF totalMatchAll(text) # {}
                    THEN captured(text, least(totalMatchAll(text)))
                    ELSE available
       IN  [available |-> available, total |-> total,
            status |-> determineStatus(available, total)]
  ELSE IF SelectSeq(doc.rows, isDartRow) # <<>>
  THEN LET rowText == Head(SelectSeq(doc.rows, isDartRow))
           available == captured(rowText, least(availableMatch(rowText)))
       IN  [available |-> available, total |-> available,
            status |-> determineStatus(available, available)]
  ELSE [available |-> 0, total |-> 0, status |-> "unknown"]

\* getStoreNameByCode: the one store of the mapping
MappedStoreName == "Kaikatsu CLUB 16gou Sagamihara Onodai"
getStoreNameByCode(storeCode) ==
  IF storeCode = "20333" THEN MappedStoreName ELSE DefaultStoreName

\* extractStoreName: the mapped name, else the name the document yields (in
\* a script, a heading or the title), else the default
extractStoreName(doc, storeCode) ==
  IF getStoreNameByCode(storeCode) # DefaultStoreName THEN getStoreNameByCode(storeCode)
  ELSE IF hasOwn(doc, "storeName") /\ doc.storeName \notin {"", DefaultStoreName}
  THEN doc.storeName
  ELSE DefaultStoreName

\* extractLastUpdated: today at the hh:mm an update element shows, else now
extractLastUpdated(doc) ==
  IF hasOwn(doc, "updated") THEN doc.updated ELSE "now"

\* the address of the vacancy endpoint, and of another JSON resource
EmptySeatUrl == "https://jx5rl6ilkg.execute-api.ap-northeast-1.amazonaws.com/prd/empty_seat"
OtherUrl == "https://www.kaikatsu.jp/shop/list.json"

\* apiRequests.find(req => req.url.includes('empty_seat')), as a sequence
isEmptySeat(req) == req.url = EmptySeatUrl
apiResponseOf_none(apiRequests) == <<>>
apiResponseOf(apiRequests) ==
  IF SelectSeq(apiRequests, isEmptySeat) = <<>> THEN <<>>
  ELSE <<Head(SelectSeq(apiRequests, isEmptySeat))>>

\* the wait for the vacancy content after the page has loaded: a timeout of
\* waitForSelector or waitForFunction is caught and logged, nothing is thrown
waitForContent(page) == IF page.ready THEN "loaded" ELSE "proceeding anyway"

\* scrapeVacancy once the page has loaded: whatever waitForContent(page)
\* logged, a captured response of the vacancy endpoint is normalized,
\* whatever its status; else the document is parsed.  Whatever is thrown is
\* logged and thrown again.
scrapeVacancy(storeCode, page) ==
  IF apiResponseOf(page.apiRequests) # <<>>
     /\ hasOwn(Head(apiResponseOf(page.apiRequests)), "response")
  THEN LET payload == Head(apiResponseOf(page.apiRequests)).response
       IN  IF hasOwn(dartVacancyOf(payload), "error") THEN dartVacancyOf(payload)
           ELSE VacancyData(storeCode, extractStoreName(page.html, storeCode),
                            dartVacancyOf(payload), lastUpdatedOf(payload))
  ELSE VacancyData(storeCode, extractStoreName(page.html, storeCode),
                   extractDartVacancy(page.html), extractLastUpdated(page.html))

(***************************************************************************)
(* The normalizer exercised alone, on payloads and documents               *)
(***************************************************************************)
\* seat_status texts: full marks, counts with and without "zan", a count of
\* several digits, texts without a count
SeatStatusTexts ==
  {<<"man", "seki">>, <<"batsu">>, <<"zan", "3", "seki">>, <<"3", "seki">>,
   <<"zan", "0", "seki">>, <<"zan", "1", "2", "seki">>, <<"kuu", "seki">>,
   <<"zan", "1", "0", "seki", "ijou">>,
   <<"zan", "seki">>, <<"seki", "3">>, <<"zan", "3">>, <<"3">>, <<>>}
\* status_no texts: the codes of the table, one outside it, one not a number
StatusNoTexts == {<<"1">>, <<"2">>, <<"3">>, <<"4">>, <<"5">>, <<"x">>}

\* a seat entry that is not about darts
Booth == [seat_name |-> "booth", category_id |-> "1",
          seat_status |-> <<"zan", "3", "seki">>, status_no |-> <<"1">>]
\* seat entries found as darts by name or by category, each with or without
\* seat_status and status_no
Seats ==
  LET ids == {[seat_name |-> Darts, category_id |-> "10"],
              [seat_name |-> Darts, category_id |-> "1"],
              [seat_name |-> "booth", category_id |-> "10"]}
      statuses == {[seat_status |-> t] : t \in SeatStatusTexts} \cup {<<>>}
      numbers == {[status_no |-> n] : n \in StatusNoTexts} \cup {<<>>}
  IN  {i @@ s @@ n : i \in ids, s \in statuses, n \in numbers}
SeatLists == {<<>>, <<Booth>>} \cup {<<s>> : s \in Seats} \cup {<<Booth, s>> : s \in Seats}

\* upstream payloads: every seat list under status 0 and under an error
\* status, and the optional fields present, empty, unreadable or missing
Payloads ==
  {[status |-> st, seat_type |-> l] : st \in {0, 1}, l \in SeatLists}
  \cup {[status |-> st] : st \in {0, 1}}
  \cup {[status |-> 0, seat_type |-> <<Booth>>, store_name |-> n, update_time |-> u] :
          n \in {"", "Kaikatsu CLUB Machida"}, u \in {"", ValidTime, InvalidTime}}

\* texts of a rendered document
DocTexts ==
  {<<"3", "dai">>, <<"3", " ", "/", " ", "8", "dai">>, <<"0", " ", "/", " ", "8", "dai">>,
   <<"zen", "8", "dai">>, <<"man", "seki">>, <<>>}
RowTexts ==
  {<<Darts, " ", "3", "dai">>, <<"DARTS", "0", "dai">>, <<Darts, "man", "seki">>,
   <<"booth", "5", "dai">>}
\* rendered documents: what the dedicated dart elements and the rows say
Docs ==
  {[dart |-> d, rows |-> r] : d \in {<<>>} \cup {<<t>> : t \in DocTexts},
                              r \in {<<>>} \cup {<<t>> : t \in RowTexts}}
  \cup {[dart |-> <<>>, rows |-> <<>>, storeName |-> "Kaikatsu CLUB Machida",
         updated |-> "today 10:30"]}
EmptyDoc == [dart |-> <<>>, rows |-> <<>>]
\* a document that shows units, a store name and a time of update
FullDoc == [dart |-> <<<<"3", "dai">>>>, rows |-> <<>>,
            storeName |-> "Kaikatsu CLUB Machida", updated |-> "today 10:30"]

\* loaded pages: the JSON responses captured while loading, whether the
\* vacancy content showed up in time, and the document
Pages ==
  {[apiRequests |-> <<[url |-> EmptySeatUrl, response |-> p]>>, ready |-> b, html |-> d] :
     p \in Payloads, b \in BOOLEAN, d \in {EmptyDoc, FullDoc}}
  \cup {[apiRequests |-> a, ready |-> b, html |-> d] :
          a \in {<<>>, <<[url |-> OtherUrl, response |-> [status |-> 0]]>>,
                 <<[url |-> EmptySeatUrl]>>,
                 <<[url |-> OtherUrl, response |-> [status |-> 0]],
                   [url |-> EmptySeatUrl, response |-> [status |-> 1]]>>},
          b \in BOOLEAN,
          d \in Docs \cup {FullDoc}}

\* what a call is made with: the payload of the direct channel's response, or
\* the page the rendered channel has loaded
NormalizerInputs ==
  {[storeCode |-> c, response |-> p] : c \in StoreCodes, p \in Payloads}
  \cup {[storeCode |-> c, page |-> g] : c \in StoreCodes, g \in Pages}

InitNormalize ==
  /\ now = 0
  /\ data = [k \in Keys |-> None]
  /\ lastSet = [k \in Keys |-> None]
  /\ firstSet = [k \in Keys |-> NoNum]
  /\ reqs = [r \in ReqIds |-> NewRequest]
  /\ browser = 0
  /\ launches = 0
  /\ InitSched
  /\ input \in NormalizerInputs
  /\ output = None

CallFetchVacancyFromAPI ==
  /\ output = None /\ hasOwn(input, "response")
  /\ output' = fetchVacancyFromAPI(input.storeCode, input.response)
  /\ UNCHANGED <<now, cacheVars, scraperVars, schedVars, input>>

CallScrapeVacancy ==
  /\ output = None /\ hasOwn(input, "page")
  /\ output' = scrapeVacancy(input.storeCode, input.page)
  /\ UNCHANGED <<now, cacheVars, scraperVars, schedVars, input>>

NextNormalize ==
  \/ CallFetchVacancyFromAPI
  \/ CallScrapeVacancy

SpecNormalize == InitNormalize /\ [][NextNormalize]_vars

(***************************************************************************)
(* determineStatus applied to every pair of counts up to MaxCount          *)
(***************************************************************************)
MaxCount == 10

InitStatus ==
  /\ now = 0
  /\ data = [k \in Keys |-> None]
  /\ lastSet = [k \in Keys |-> None]
  /\ firstSet = [k \in Keys |-> NoNum]
  /\ reqs = [r \in ReqIds |-> NewRequest]
  /\ browser = 0
  /\ launches = 0
  /\ InitSched
  /\ input \in {[available |-> a, total |-> t] : a \in 0..MaxCount, t \in 0..MaxCount}
  /\ output = None

CallDetermineStatus ==
  /\ output = None
  /\ output' = [status |-> determineStatus(input.available, input.total)]
  /\ UNCHANGED <<now, cacheVars, scraperVars, schedVars, input>>

SpecStatus == InitStatus /\ [][CallDetermineStatus]_vars

(***************************************************************************)
(* scrapeWithRetry exercised alone, one call at a time, for every          *)
(* maxRetries                                                              *)
(***************************************************************************)
CallScrapeWithRetry == \E r \in ReqIds, c \in StoreCodes, m \in MaxRetriesValues :
  scrapeWithRetry(r, c, m)

NextRetry ==
  \/ CallScrapeWithRetry
  \/ LaunchResolves
  \/ LaunchRejects
  \/ PageLoaded
  \/ ScrapeResolves
  \/ ScrapeRejects
  \/ BackoffElapsed
  \/ TickServer

SpecRetry == Init /\ [][NextRetry]_vars

\* the instant at which the last set of k runs out
LiveUntil(k) == lastSet[k].at + TTL * Unit

(***************************************************************************)
(* Properties of acquisition                                               *)
(***************************************************************************)
InFlight == {"direct", "launch", "page", "sleep"}
\* the handler of r went past the cache check: a miss or a bypass
PastCache(R) ==
  R.caller = "getVacancy" /\
  (R.pc \in InFlight \/ (R.pc = "done" /\ R.status # 400 /\ ~R.cached))

\* C1: on a cache miss or bypass, acquire invokes the direct channel first
\* and exactly once; the rendered channel is invoked only after that direct
\* call has failed, never when it succeeded.
C1_DirectFirstExactlyOnce ==
  \A r \in ReqIds :
    /\ PastCache(reqs[r]) => reqs[r].direct = 1
    /\ (reqs[r].caller = "getVacancy" /\ reqs[r].rendered > 0) =>
         (reqs[r].direct = 1 /\ reqs[r].pc # "direct" /\ ~reqs[r].directOk)
    /\ reqs[r].directOk => reqs[r].rendered = 0

\* a request answered by the rendered channel after its direct call failed
C1_Witness ==
  \E r \in ReqIds :
    /\ reqs[r].caller = "getVacancy" /\ reqs[r].pc = "done"
    /\ reqs[r].status = 200 /\ reqs[r].rendered > 0 /\ reqs[r].direct = 1

\* C2: when acquire is called for an entity whose entry is live (set less
\* than TTL ago, not cleared) and no bypass was requested, it returns the
\* cached record and invokes neither channel.
C2_LiveHit(r) ==
  /\ reqs[r].pc = "new" /\ reqs'[r].pc # "new"
  /\ reqs'[r].caller = "getVacancy"
  /\ reqs'[r].code \in StoreCodes
  /\ reqs'[r].q # "true"
  /\ lastSet[<<"vacancy:", reqs'[r].code>>] # None
  /\ now < LiveUntil(<<"vacancy:", reqs'[r].code>>)
C2_ServedFromCache(r) ==
  /\ reqs'[r].pc = "done" /\ reqs'[r].status = 200 /\ reqs'[r].cached
  /\ reqs'[r].body = lastSet[<<"vacancy:", reqs'[r].code>>].v
  /\ reqs'[r].direct = 0 /\ reqs'[r].rendered = 0
C2_LiveEntryServedWithoutFetch ==
  [][\A r \in ReqIds : C2_LiveHit(r) => C2_ServedFromCache(r)]_vars

\* a request answered from an entry that was set at an earlier instant
C2_Witness ==
  \E r \in ReqIds :
    /\ reqs[r].pc = "done" /\ reqs[r].cached /\ reqs[r].cacheAge >= 1
    /\ reqs[r].direct = 0 /\ reqs[r].rendered = 0

\* C4: the rendered channel has exactly one live browser session per
\* process: for any interleaving of concurrent rendered fetches the browser
\* is launched at most once and every fetch opens its page on that session.
C4_SingleBrowserSession ==
  /\ launches <= 1
  /\ \A r \in ReqIds : reqs[r].pc = "page" => reqs[r].page = browser

\* C5: scrapeWithRetry(id, maxRetries) makes at most maxRetries sequential
\* attempts, returns the result of the first successful attempt without a
\* further attempt, and when all maxRetries attempts failed raises the error
\* of the last attempt.
C5_AtMost ==
  \A r \in ReqIds : reqs[r].max > 0 =>
    /\ reqs[r].rendered <= reqs[r].max
    /\ reqs[r].attempt <= reqs[r].max
    /\ reqs[r].pc \in {"launch", "page", "sleep"} => reqs[r].rendered = reqs[r].attempt
    /\ (reqs[r].pc = "done" /\ reqs[r].status = 500) =>
         /\ reqs[r].rendered = reqs[r].max
         /\ reqs[r].lastError = [kind |-> "scrape", attempt |-> reqs[r].max]
C5_AttemptEnds(r) ==
  (reqs[r].pc \in {"launch", "page"} /\ reqs'[r].pc \notin {"launch", "page"}) =>
    \/ /\ reqs'[r].pc = "done" /\ reqs'[r].status = 200
       /\ reqs'[r].body \in RecordsOf(reqs[r].code)
       /\ reqs'[r].rendered = reqs[r].rendered
    \/ /\ reqs'[r].pc = "sleep" /\ reqs[r].attempt < reqs[r].max
       /\ reqs'[r].rendered = reqs[r].rendered
    \/ /\ reqs'[r].pc = "done" /\ reqs'[r].status = 500
       /\ reqs[r].attempt = reqs[r].max
C5_BoundedRetry == []C5_AtMost /\ [][\A r \in ReqIds : C5_AttemptEnds(r)]_vars

\* a call that threw after maxRetries >= 2 failed attempts
C5_Witness ==
  \E r \in ReqIds :
    /\ reqs[r].caller = "scrapeWithRetry" /\ reqs[r].pc = "done"
    /\ reqs[r].status = 500 /\ reqs[r].max >= 2 /\ reqs[r].rendered = reqs[r].max

\* C6: attempt k+1 starts no earlier than 2^k seconds after attempt k failed
\* (k from 1), so attempt 3 is preceded by at least 2s + 4s of backoff; no
\* backoff sleep follows the final failed attempt.
C6_Wakes(r) ==
  (reqs[r].pc = "sleep" /\ reqs'[r].pc # "sleep") =>
    /\ now >= reqs[r].failedAt + (2 ^ reqs[r].attempt) * Unit
    /\ reqs'[r].attempt = reqs[r].attempt + 1
C6_NoSleepAfterLast(r) ==
  (reqs[r].pc \in {"launch", "page"} /\ reqs[r].attempt = reqs[r].max) =>
    reqs'[r].pc # "sleep"
C6_Cumulative ==
  \A r \in ReqIds : reqs[r].attempt = 3 => reqs[r].waited >= (2 + 4) * Unit
C6_ExponentialBackoff ==
  []C6_Cumulative /\ [][\A r \in ReqIds : C6_Wakes(r) /\ C6_NoSleepAfterLast(r)]_vars

\* the third attempt in flight after two failed ones
C6_Witness ==
  \E r \in ReqIds :
    /\ reqs[r].max = 3 /\ reqs[r].attempt = 3 /\ reqs[r].pc = "page"
    /\ reqs[r].waited >= (2 + 4) * Unit

\* C7: acquire changes the cache iff it obtained a record: on success the
\* entry of the entity becomes exactly the record returned to the caller;
\* when the direct channel fails and the rendered channel exhausts its
\* retries the caller gets an error and no entry of any entity changes.
\* (An entry is what get and getTtl show of a key.)
Entry(k) == <<getValue(k), getTtl(k)>>
C7_Obtained(r) ==
  reqs'[r].pc = "done" /\ reqs'[r].status = 200 /\ ~reqs'[r].cached
\* the handler of r has moved (its history field apart)
C7_Moved(r) == [reqs'[r] EXCEPT !.after = {}] # [reqs[r] EXCEPT !.after = {}]
C7_Step(r) ==
  (C7_Moved(r) /\ reqs'[r].caller = "getVacancy") =>
    IF C7_Obtained(r)
    THEN \A c \in StoreCodes : \A k \in Keys :
           IF k = <<"vacancy:", c>> /\ c = reqs'[r].code
           THEN Entry(k)' = <<reqs'[r].body, now + TTL * Unit>>
           ELSE c = reqs'[r].code => Entry(k)' = Entry(k)
    ELSE \A k \in Keys : Entry(k)' = Entry(k)
C7_CacheChangesIffObtained == [][\A r \in ReqIds : C7_Step(r)]_vars

\* a request answered 500 after the direct call and three rendered attempts
\* failed, while the other entity's entry is live
C7_Witness ==
  \E r \in ReqIds :
    /\ reqs[r].caller = "getVacancy" /\ reqs[r].pc = "done" /\ reqs[r].status = 500
    /\ reqs[r].direct = 1 /\ reqs[r].rendered = 3
    /\ \E k \in Keys \ {<<"vacancy:", reqs[r].code>>} : getValue(k) # None

(***************************************************************************)
(* Properties of the scheduler                                             *)
(***************************************************************************)
\* C3: stop() cancels every outstanding timer: once stop() has been called
\* after start() (also before the one-shot has fired) the scheduler starts
\* no refresh round at any later time; stop() is idempotent and safe without
\* start().
C3_NoRoundAfterStop == [][stops > 0 => rounds' = rounds]_vars

(***************************************************************************)
(* Properties of the cache                                                 *)
(***************************************************************************)
\* C8: after set(k,v), get(k) returns v and has(k) is true at every instant
\* before insertedAt + TTL (absent delete, clear, overwrite); at every instant
\* after the TTL has elapsed get(k) returns empty and has(k) is false, whether
\* or not the sweep has removed the entry.
C8_GetWithinTtlOnly ==
  \A k \in Keys : lastSet[k] # None =>
    /\ now < LiveUntil(k) => (getValue(k) = lastSet[k].v /\ hasValue(k))
    /\ now > LiveUntil(k) => (getValue(k) = None /\ ~hasValue(k))

\* an entry that has run out and is still in the table (not yet swept)
C8_Witness ==
  \E k \in Keys :
    /\ lastSet[k] # None /\ now > LiveUntil(k)
    /\ data[k] # None /\ getValue(k) = None

\* C9: set on an existing key replaces the value wholesale and restarts the
\* countdown at the full TTL: the stored entry is the value of the last set
\* and it expires TTL after that last set, not after the first.
C9_OverwriteRestartsTtl ==
  \A k \in Keys : lastSet[k] # None =>
    /\ data[k] # None =>
         data[k] = [v |-> lastSet[k].v, t |-> lastSet[k].at + TTL * Unit]
    /\ now <= LiveUntil(k) => getValue(k) = lastSet[k].v
    /\ now > LiveUntil(k) => getValue(k) = None

\* a key overwritten with another value, read after the first set's TTL ran
\* out and while the second set's TTL has not
C9_Witness ==
  \E k \in Keys :
    /\ lastSet[k] # None /\ firstSet[k] < lastSet[k].at
    /\ now > firstSet[k] + TTL * Unit
    /\ getValue(k) = lastSet[k].v

\* C10: getAge(k) is empty when k is absent or expired; while the entry lives
\* its value is within 0..TTL and never decreases as time passes.
C10_AgeRange ==
  \A k \in Keys :
    /\ (lastSet[k] = None \/ now > LiveUntil(k)) => cacheAge(k) = NoNum
    /\ (lastSet[k] # None /\ now <= LiveUntil(k)) => cacheAge(k) \in 0..TTL
C10_AgeMonotone ==
  \A k \in Keys :
    (lastSet'[k] = lastSet[k] /\ cacheAge(k) # NoNum /\ cacheAge(k)' # NoNum)
      => cacheAge(k)' >= cacheAge(k)
C10_AgeBoundedMonotone == []C10_AgeRange /\ [][C10_AgeMonotone]_vars

\* a live entry that has reached the full TTL as its age
C10_Witness ==
  \E k \in Keys : lastSet[k] # None /\ now > lastSet[k].at /\ cacheAge(k) = TTL

(***************************************************************************)
(* Properties of the scheduler                                             *)
(***************************************************************************)
\* an instant whose minute is 04, 14, .. 54, seconds and milliseconds zero
C11_Aligned(t) == t % Minute = 0 /\ (t \div Minute) % 10 = 4

\* the instants of the claim's examples and what they must give
C11_Examples ==
  /\ now = At(23, 1, 0) => output = At(23, 4, 0)
  /\ now = At(23, 4, 0) => output = At(23, 14, 0)
  /\ now = At(23, 7, 30) => output = At(23, 14, 0)
  /\ now = At(23, 56, 0) => output = At(24, 4, 0)

\* C11: for every instant now, getNextScheduledTime returns the smallest
\* instant strictly after now whose minute is 10*b + 4 with seconds and
\* milliseconds zero: an instant exactly on a trigger rolls to the next one,
\* past minute 54 the next hour's 04 is returned, and the delay to it is
\* positive and at most 10 minutes.
C11_NextTrigger ==
  output # NoNum =>
    /\ C11_Aligned(output)
    /\ output > now
    /\ \A t \in (now + 1)..(output - 1) : ~C11_Aligned(t)
    /\ output - now <= 10 * Minute
    /\ C11_Examples

\* the function was called exactly on a trigger and rolled to the next one
C11_Witness == now = At(23, 4, 0) /\ output = At(23, 14, 0)

\* the trigger that follows the instant s of start(): the aligned instant of
\* the ten minutes after s
C12_Trigger(s) == CHOOSE t \in (s + 1)..(s + 10 * Minute) : C11_Aligned(t)

\* the rounds started so far are the warm-up at start(), then one at the
\* trigger T, then one every 10 minutes after T
C12_Order ==
  \A i \in 2..Len(roundLog) :
    roundLog[i].at = C12_Trigger(roundLog[1].at) + (i - 2) * 10 * Minute

\* the timers that start the coming rounds are pending in a running process
C12_Armed == proc = "running" /\ (timeout \/ timers # {})

\* C12: after start() and with no stop(), rounds are started in this order
\* and at no other times: one at start, one when the one-shot fires at the
\* next aligned trigger T, then one every 10 minutes after T; the periodic
\* timer exists only once the one-shot has fired.
C12_CadenceSchedule ==
  (started /\ stops = 0) =>
    /\ C12_Order
    /\ timers # {} => ~timeout
    /\ C12_Armed

\* the process was ended by a signal handler's process.exit(0)
C16_ShutDown == proc = "exited" /\ \E g \in Signals : sig[g] = "done"

\* C16: for every sequence of termination signals (SIGTERM alone, SIGINT
\* alone, both with the second arriving while the first handler awaits the
\* close) shutdown closes the shared browser session exactly once and has
\* cancelled every scheduler timer before the process exits: the session is
\* never closed twice and no timer or session is left alive.
C16_ShutdownOnce ==
  /\ closes <= 1
  /\ C16_ShutDown => (~timeout /\ timers = {} /\ browser = 0)

\* C19: for every way a round is started (the warm-up of start(), the
\* one-shot callback, each periodic callback) an error the round raises is
\* caught at its call site: no rejection is left unhandled, and the process
\* keeps running its later ticks until a signal shuts it down.
C19_RoundErrorsCaught ==
  /\ unhandled = 0
  /\ proc = "exited" => C16_ShutDown

(***************************************************************************)
(* Properties of the refresh round                                         *)
(***************************************************************************)
\* the entities a round has handed to the acquisition, each in its own task
C13_Acquired == {reqs[r].code : r \in {q \in ReqIds : reqs[q].caller = "executeScraping"}}

\* the entities ever written to the cache: those some request obtained from
\* a channel (an obtained payload is written before it is returned, C7)
C14_EverSeen == {reqs[r].code : r \in {q \in ReqIds : reqs[q].status = 200 /\ ~reqs[q].cached}}

\* the entities a round has to refresh: those ever seen, else the default
C14_Tracked == IF C14_EverSeen = {} THEN DEFAULT_STORE_CODES ELSE C14_EverSeen

\* C13: a round acquires its entities in isolation: it settles without
\* failing as a whole, and every entity stored when the round starts has its
\* own acquisition whose outcome no sibling's failure prevents or cancels.
C13_RoundIsolation ==
  [][rounds' > rounds =>
       /\ roundLog'[Len(roundLog')].outcome = "resolved"
       /\ \A c \in StoreCodes : data[<<"vacancy:", c>>] # None => c \in C13_Acquired']_vars

\* C14: the entities of a round are the distinct entities ever seen as keys
\* of the 'vacancy:' namespace: an entity once written is part of every later
\* round, also after its entry expired or the cache was cleared, and the
\* default set is used only when none was ever seen.
C14_TrackedEverSeen ==
  [][rounds' > rounds => C13_Acquired' = C14_Tracked]_vars

\* C18: a round acquires each tracked entity as an external request does:
\* the direct channel first, the rendered channel with retry only when the
\* direct one failed.
C18_DirectFirstInRound ==
  [][rounds' > rounds =>
       \A c \in C14_Tracked : \E r \in ReqIds :
         /\ reqs'[r].caller = "executeScraping" /\ reqs'[r].code = c
         /\ reqs'[r].direct = 1
         /\ reqs'[r].rendered > 0 => ~reqs'[r].directOk]_vars

(***************************************************************************)
(* Properties of the normalizer                                            *)
(***************************************************************************)
\* the call has returned a VacancyData
C15_Returned == hasOwn(output, "dartVacancy")

\* the structured payload the call has consumed, as a sequence: the data of
\* the direct response, or the captured response of the vacancy endpoint
C17_Consumed ==
  IF hasOwn(input, "response") THEN <<input.response>>
  ELSE IF apiResponseOf(input.page.apiRequests) # <<>>
          /\ hasOwn(Head(apiResponseOf(input.page.apiRequests)), "response")
  THEN <<Head(apiResponseOf(input.page.apiRequests)).response>>
  ELSE <<>>

\* C15: every VacancyData, from the structured payload or from the rendered
\* document, has status unknown when its total is 0, also when the payload
\* carries an explicit status code such as 4 (full) next to a full mark.
C15_ZeroTotalUnknown ==
  C15_Returned => (output.dartVacancy.total = 0 => output.dartVacancy.status = "unknown")

\* C17: the normalizer never fails: for every structured payload that passed
\* the status check (whatever its seat list, a found seat entry without
\* seat_status or status_no included, store_name or update_time missing) and
\* for every document, the call returns a record whose available and total
\* are non-negative integers and whose status is one of the four, and
\* throws nothing.
C17_NormalizerTotal ==
  (output # None /\ \A i \in 1..Len(C17_Consumed) : C17_Consumed[i].status = 0) =>
    /\ C15_Returned
    /\ output.dartVacancy.available \in Nat
    /\ output.dartVacancy.total \in Nat
    /\ output.dartVacancy.status \in {"vacant", "crowded", "full", "unknown"}

\* C20: a structured payload whose top-level status is not 0 is an error on
\* every path: the direct call throws, and a payload captured while the page
\* loaded is never normalized into a returned VacancyData.
C20_ErrorStatusNeverNormalized ==
  (output # None /\ \E i \in 1..Len(C17_Consumed) : C17_Consumed[i].status # 0) =>
    hasOwn(output, "error")

(***************************************************************************)
(* Properties of the page of a rendered attempt                            *)
(***************************************************************************)
\* C21: a page opened by a rendered attempt is closed before the attempt
\* returns or throws: a request holds a page only while scrapeVacancy is
\* running for it, never in the backoff sleep, at the start of the next
\* attempt or once it is answered, so that no page is open whenever no
\* rendered attempt is in flight.
C21_PageClosedOnExit ==
  \A r \in ReqIds : reqs[r].pc # "page" => reqs[r].page = 0

\* the first request alone launched the session, opened its page on it,
\* failed and now sleeps before its next attempt
C21_Witness ==
  /\ reqs[1].pc = "sleep" /\ reqs[1].page = 0
  /\ reqs[2].pc = "new"
  /\ launches = 1 /\ browser = 1

(***************************************************************************)
(* Properties of the structured-payload parse                              *)
(***************************************************************************)
\* the seat entry about darts of the payload the call consumed, as a sequence
C22_DartInfo ==
  IF C17_Consumed = <<>> THEN <<>> ELSE dartInfoOf(C17_Consumed[1])

\* the numeric status code the seat entry carries, NaN when it carries none
C22_Code ==
  IF hasOwn(C22_DartInfo[1], "status_no") THEN parseInt(C22_DartInfo[1].status_no) ELSE NaN

\* the table of status codes
C22_Table(n) ==
  IF n = 1 THEN "vacant"
  ELSE IF n \in {2, 3} THEN "crowded"
  ELSE IF n = 4 THEN "full"
  ELSE "unknown"

\* the ratio-derived status: none for no seats, full for none free, crowded
\* under 30 percent free
C22_Ratio(available, total) ==
  IF total = 0 THEN "unknown"
  ELSE IF available = 0 THEN "full"
  ELSE IF 10 * available < 3 * total THEN "crowded"
  ELSE "vacant"

\* C22, as claimed: when the darts seat entry is present, the status of the
\* record is the ratio-derived status of (available, total) unless a numeric
\* status code is present, and then the table's mapping of that code.
C22_RatioUnlessCode ==
  (C15_Returned /\ C22_DartInfo # <<>>) =>
    output.dartVacancy.status =
      IF C22_Code # NaN THEN C22_Table(C22_Code)
      ELSE C22_Ratio(output.dartVacancy.available, output.dartVacancy.total)

(***************************************************************************)
(* Properties of determineStatus                                           *)
(***************************************************************************)
\* the status the rule gives to counts a of t
C23_Rule(a, t) ==
  CASE t = 0 -> "unknown"
    [] t # 0 /\ a = 0 -> "full"
    [] t # 0 /\ a # 0 /\ 10 * a < 3 * t -> "crowded"
    [] OTHER -> "vacant"

\* the examples: (0, 8) full, (2, 8) crowded, (5, 8) vacant, and counts in
\* the ratio of exactly 0.3 vacant
C23_Example(a, t) ==
  CASE a = 0 /\ t = 8 -> "full"
    [] a = 2 /\ t = 8 -> "crowded"
    [] a = 5 /\ t = 8 -> "vacant"
    [] t # 0 /\ 10 * a = 3 * t /\ a # 0 -> "vacant"
    [] OTHER -> output.status

\* C23: determineStatus returns unknown when total is 0 whatever available
\* is, else full when available is 0, else crowded when available is under
\* 30 percent of total (10 * available < 3 * total), else vacant; (0, 8) is
\* full, (2, 8) crowded, (5, 8) vacant and a ratio of exactly 0.3 vacant.
C23_DetermineStatus ==
  output # None =>
    /\ output.status = C23_Rule(input.available, input.total)
    /\ output.status = C23_Example(input.available, input.total)

\* 3 free of 10, the ratio of exactly 0.3, was given vacant
C23_Witness ==
  /\ output # None
  /\ input = [available |-> 3, total |-> 10]
  /\ output.status = "vacant"

(***************************************************************************)
(* Properties of the availability read from a structured payload           *)
(***************************************************************************)
\* the seat-status text of the darts entry the call consumed
C24_Text == C22_DartInfo[1].seat_status

\* the positions of a "seki" that directly follows a digit
C24_Seats(text) == {j \in 2..Len(text) : text[j] = "seki" /\ text[j - 1] \in Digits}

\* the start of the run of digits of text that ends at j
RECURSIVE C24_RunStart(_, _)
C24_RunStart(text, j) ==
  IF j > 1 /\ text[j - 1] \in Digits THEN C24_RunStart(text, j - 1) ELSE j

\* the number a run of digits denotes, read from its first digit on
RECURSIVE C24_Number(_, _)
C24_Number(digits, sofar) ==
  IF digits = <<>> THEN sofar
  ELSE C24_Number(Tail(digits), 10 * sofar + digitValue(Head(digits)))

\* 0 for a full mark, N for a text that holds "N seats" (with or without
\* "remaining" in front and "or more" behind), 0 for any other text
C24_Available(text) ==
  IF text \in {<<"man", "seki">>, <<"batsu">>} THEN 0
  ELSE IF C24_Seats(text) = {} THEN 0
  ELSE LET j == CHOOSE k \in C24_Seats(text) : \A o \in C24_Seats(text) : k <= o
       IN  C24_Number(SubSeq(text, C24_RunStart(text, j - 1), j - 1), 0)

\* C24: on the structured path a full mark gives available 0, a text
\* "remaining N seats" gives N ("N or more" included), any other text 0;
\* total is available when available > 0 and else 0, so total = available
\* in every record of this path.
C24_StructuredAvailability ==
  (C15_Returned /\ C22_DartInfo # <<>>) =>
    /\ output.dartVacancy.available = C24_Available(C24_Text)
    /\ C24_Text = <<"zan", "1", "0", "seki", "ijou">> => output.dartVacancy.available = 10
    /\ C24_Text = <<"zan", "3", "seki">> => output.dartVacancy.available = 3
    /\ output.dartVacancy.total =
         IF output.dartVacancy.available > 0 THEN output.dartVacancy.available ELSE 0
    /\ output.dartVacancy.total = output.dartVacancy.available

\* "remaining 10 seats or more" was read as 10 of 10
C24_Witness ==
  /\ C15_Returned /\ C22_DartInfo # <<>>
  /\ C24_Text = <<"zan", "1", "0", "seki", "ijou">>
  /\ output.dartVacancy.available = 10
  /\ output.dartVacancy.total = 10

(***************************************************************************)
(* Properties of the availability read from the rendered document          *)
(***************************************************************************)
\* the call parsed the rendered document: a page was loaded and no payload
\* of the vacancy endpoint was consumed
C25_DocumentParsed ==
  /\ hasOwn(input, "page") /\ C17_Consumed = <<>>
  /\ C15_Returned

\* the text of the dedicated darts element of the document, <<>> without one
C25_Text == IF input.page.html.dart = <<>> THEN <<>> ELSE input.page.html.dart[1]

\* the text is "N / M units", the text is "N units"
C25_IsOf(text) ==
  /\ Len(text) = 6
  /\ text[1] \in Digits /\ text[2] = " " /\ text[3] = "/" /\ text[4] = " "
  /\ text[5] \in Digits /\ text[6] = "dai"
C25_IsUnits(text) == Len(text) = 2 /\ text[1] \in Digits /\ text[2] = "dai"

\* C25: a dedicated element reading "N / M units" gives available N and
\* total M, one reading "N units" gives available N and total N, and the
\* status is determineStatus(available, total) in both cases.
C25_DocumentAvailability ==
  C25_DocumentParsed =>
    /\ C25_IsOf(C25_Text) =>
         /\ output.dartVacancy.available = digitValue(C25_Text[1])
         /\ output.dartVacancy.total = digitValue(C25_Text[5])
    /\ C25_IsUnits(C25_Text) =>
         /\ output.dartVacancy.available = digitValue(C25_Text[1])
         /\ output.dartVacancy.total = digitValue(C25_Text[1])
    /\ (C25_IsOf(C25_Text) \/ C25_IsUnits(C25_Text)) =>
         output.dartVacancy.status =
           C23_Rule(output.dartVacancy.available, output.dartVacancy.total)

(***************************************************************************)
(* Properties of the choice between captured payload and document          *)
(***************************************************************************)
\* a captured response of the vacancy endpoint that carries a payload
C26_IsCapture(req) == req.url = EmptySeatUrl /\ hasOwn(req, "response")

\* the payloads of the vacancy endpoint captured while the page loaded
C26_Captured ==
  IF hasOwn(input, "page") THEN SelectSeq(input.page.apiRequests, C26_IsCapture) ELSE <<>>

\* the rendered fetch has ended, with a record or with an error
C26_Fetched == hasOwn(input, "page") /\ output # None

C27_Stored(q, c) ==
  /\ reqs[q].caller = "getVacancy" /\ reqs[q].code = c
  /\ reqs[q].pc = "done" /\ reqs[q].status = 200 /\ ~reqs[q].cached

\* this step, the rendered fetch of r returns and getVacancy stores its record
C27_Stores(r) ==
  /\ reqs[r].caller = "getVacancy" /\ reqs[r].pc = "page"
  /\ reqs'[r].pc = "done" /\ reqs'[r].status = 200

\* C27: when acquisitions for the same store overlap, an acquisition that
\* obtained its payload earlier and finishes later never overwrites the
\* record of one that obtained its payload later, so that once all have
\* completed the cache holds the record built from the payload obtained last.
C27_LatestPayloadWins ==
  [][\A r \in ReqIds : C27_Stores(r) =>
       \A q \in reqs[r].after :
         (C27_Stored(q, reqs[r].code) /\ getValue(cacheKey(reqs[r].code)) = reqs[q].body)
           => reqs'[r].body = reqs[q].body]_vars

====
